---- MODULE Spec2Model ----
(***************************************************************************)
(* A model of gods, the dwm status line of src/gods.go (two variants of    *)
(* the program are kept in that file: lines 1-235 show the network use as  *)
(* arrows, lines 237-504 show rates through fixed) and of the key=value    *)
(* store of src/unnamed/part_000.                                          *)
(*                                                                         *)
(* Go strings are sequences of one-character strings.  The statuscolors    *)
(* escape bytes 0x01, 0x03, 0x04 and 0x06 of the source's string literals  *)
(* are the characters "^A", "^C", "^D" and "^F".                           *)
(***************************************************************************)
EXTENDS Integers, Sequences, FiniteSets, TLC

VARIABLES
    variant,    \* which main of src/gods.go runs: "arrows" (1-235) or "rates" (237-504)
    pc,         \* position of main in its loop body, or "panic"
    rxOld,      \* gods.go:43,286
    txOld,      \* gods.go:44,287
    status,     \* the fields of the status line computed so far in this tick
    title,      \* the last string handed to xsetroot
    netIn,      \* what the last updateNetUse found in /proc/net/dev
    prevIn,     \* what the last updateNetUse that opened the table before that one found
    rxPrev,     \* rxOld as the last updateNetUse found it
    txPrev,     \* txOld as the last updateNetUse found it
    call,       \* the arguments of the function under test
    ret,        \* <<its result>>, or Pending
    prevCall,   \* the arguments of the call before
    prevRet     \* the result of the call before

vars == <<variant, pc, rxOld, txOld, status, title, netIn, prevIn, rxPrev, txPrev,
          call, ret, prevCall, prevRet>>

loopVars == <<variant, pc, rxOld, txOld, status, title, netIn, prevIn, rxPrev, txPrev>>
callVars == <<call, ret, prevCall, prevRet>>

\* A result not yet returned is <<>>, a returned value v is <<v>>; a call or an
\* input that did not happen yet is <<>> as well.
Pending == <<>>
None == <<>>

\* A file as a reader finds it: open is FALSE when it cannot be opened.
NoFile == [open |-> FALSE, lines |-> <<>>]
File(lines) == [open |-> TRUE, lines |-> lines]

(***************************************************************************)
(* Strings, integers and float32                                           *)
(***************************************************************************)
ESC1 == "^A"
ESC3 == "^C"
ESC4 == "^D"
ESC6 == "^F"

Digits == <<"0", "1", "2", "3", "4", "5", "6", "7", "8", "9">>

RECURSIVE Pow2(_)
Pow2(k) == IF k = 0 THEN 1 ELSE 2 * Pow2(k - 1)

RECURSIVE Pow10(_)
Pow10(k) == IF k = 0 THEN 1 ELSE 10 * Pow10(k - 1)

Abs(n) == IF n < 0 THEN -n ELSE n

\* Go's integer division truncates toward zero.
TruncDiv(a, b) ==
    IF (a >= 0) = (b > 0) THEN Abs(a) \div Abs(b) ELSE -(Abs(a) \div Abs(b))

RECURSIVE NatStr(_)
NatStr(n) == IF n < 10 THEN <<Digits[n + 1]>> ELSE NatStr(n \div 10) \o <<Digits[(n % 10) + 1]>>

\* strconv.Itoa, the digits of %d
Itoa(n) == IF n < 0 THEN <<"-">> \o NatStr(-n) ELSE NatStr(n)

RECURSIVE Spaces(_)
Spaces(k) == IF k <= 0 THEN <<>> ELSE <<" ">> \o Spaces(k - 1)

RECURSIVE Zeros(_)
Zeros(k) == IF k <= 0 THEN <<>> ELSE <<"0">> \o Zeros(k - 1)

PadLeft(s, w) == Spaces(w - Len(s)) \o s

\* fmt's %<w>d
FmtD(n, w) == PadLeft(Itoa(n), w)

\* fmt's %0<w>d: the zeros go between the sign and the digits
FmtD0(n, w) ==
    IF n < 0 THEN <<"-">> \o Zeros(w - 1 - Len(NatStr(-n))) \o NatStr(-n)
    ELSE Zeros(w - Len(NatStr(n))) \o NatStr(n)

HasPrefix(s, p) == Len(s) >= Len(p) /\ SubSeq(s, 1, Len(p)) = p
HasSuffix(s, p) == Len(s) >= Len(p) /\ SubSeq(s, Len(s) - Len(p) + 1, Len(s)) = p

\* strings.Replace(s, old, new, 1) for a one-character old
ReplaceFirst(s, old, new) ==
    IF \E i \in 1..Len(s) : s[i] = old
    THEN LET i == CHOOSE j \in 1..Len(s) : s[j] = old /\ \A k \in 1..(j - 1) : s[k] # old
         IN  SubSeq(s, 1, i - 1) \o new \o SubSeq(s, i + 1, Len(s))
    ELSE s

\* The number of low bits a non-negative integer loses in a 24-bit mantissa.
RECURSIVE MantissaShift(_)
MantissaShift(n) == IF n < 16777216 THEN 0 ELSE 1 + MantissaShift(n \div 2)

\* n / 2^k rounded to the nearest integer, ties to even.
RoundShift(n, k) ==
    IF k = 0 THEN n
    ELSE LET q == n \div Pow2(k)
             r == n % Pow2(k)
             half == Pow2(k - 1)
         IN  IF r > half \/ (r = half /\ q % 2 = 1) THEN q + 1 ELSE q

\* float32(n) for an integer n >= 0, as the integer it holds.
F32(n) == LET k == MantissaShift(n) IN RoundShift(n, k) * Pow2(k)

\* fmt's %<w>.<prec>f of the value m/d >= 0 (d a power of two, prec 0 or 1):
\* the exact value rounded to prec decimals, ties to even.
FmtF(m, d, w, prec) ==
    LET q == m \div d
        t == (m % d) * Pow10(prec)
        lo == q * Pow10(prec) + (t \div d)
        rem == t % d
        scaled == IF 2 * rem > d \/ (2 * rem = d /\ lo % 2 = 1) THEN lo + 1 ELSE lo
        whole == NatStr(scaled \div Pow10(prec))
        frac == IF prec = 0 THEN <<>> ELSE <<".">> \o NatStr(scaled % Pow10(prec))
    IN  PadLeft(whole \o frac, w)

(***************************************************************************)
(* gods.go: constants                                                      *)
(***************************************************************************)
bpsSign == <<"B", "/", "s">>
kibpsSign == <<"K", "i", "B", "/", "s">>
mibpsSign == <<"M", "i", "B", "/", "s">>
unpluggedSign == <<"B", "A", "T">>
pluggedSign == <<"A", "C">>
cpuSign == <<"C", "P", "U">>
memSign == <<"M", "E", "M">>
netSign == <<"N", "E", "T">>
netReceivedSign == <<"R", "X">>
netTransmittedSign == <<"T", "X">>
floatSeparator == <<".">>
fieldSeparator == <<" ", "|", " ">>
\* "\x03ERR\x01", the error marker of every reader
ERR == <<ESC3, "E", "R", "R", ESC1>>
powerERR == <<"Ï">> \o ERR
netDevs == {"enp0s25:", "wlp4s0:"}

(***************************************************************************)
(* gods.go:290-321  fixed                                                  *)
(***************************************************************************)
Kibi == 1024
RateCeiling == 1000 * Kibi * Kibi

\* gods.go:311-320: the number and the suffix, spd = m/d
fixedFormat(pre, m, d, suf) ==
    LET formated == IF m >= 100 * d THEN FmtF(m, d, 3, 0)
                    ELSE IF m >= 10 * d THEN FmtF(m, d, 4, 1)
                    ELSE <<" ">> \o FmtF(m, d, 3, 1)
    IN  pre \o ReplaceFirst(formated, ".", floatSeparator) \o suf

\* gods.go:296-320, fixed for a rate >= 0
fixedUnit(pre, rate) ==
    LET spd == F32(rate)
    IN  IF spd >= RateCeiling THEN <<ESC4>> \o pre \o ERR
        ELSE IF spd >= 1000 * Kibi
             THEN fixedFormat(<<ESC4>> \o pre \o <<ESC1>>, spd, Kibi * Kibi, mibpsSign)
        ELSE IF spd >= 1000 THEN fixedFormat(pre, spd, Kibi, kibpsSign)
        ELSE fixedFormat(pre, spd, 1, bpsSign)

fixedZeroNeg(pre, rate) == fixedUnit(pre, IF rate < 0 THEN 0 ELSE rate)

fixed(pre, rate) ==
    IF rate < 0 THEN pre \o <<" ">> \o ERR ELSE fixedUnit(pre, rate)

(***************************************************************************)
(* Calls of fixed on rates around every threshold of the code              *)
(***************************************************************************)
RateDelta == 1

\* The thresholds of fixed and the rates at which its rounding carries.
RateMarks == {0, 10, 100, 1000, 10189, 10240, 102349, 102400, 1023488, 1024000,
              10433332, 10485760, 104805173, 104857600, 1048051712,
              1048575968, 1048576000}

Rates == {b + e : b \in RateMarks, e \in (-RateDelta)..RateDelta} \cup {500, 2000, 2000000}

FixedInputs == [pre : {netReceivedSign, netTransmittedSign}, rate : Rates]

InitFixed ==
    /\ call \in FixedInputs
    /\ ret = Pending
    /\ prevCall = None
    /\ prevRet = None
    /\ variant = "rates" /\ pc = "idle" /\ rxOld = 0 /\ txOld = 0
    /\ status = <<>> /\ title = <<>> /\ netIn = None /\ prevIn = None
    /\ rxPrev = 0 /\ txPrev = 0

FixedCall ==
    /\ ret = Pending
    /\ ret' = <<fixed(call.pre, call.rate)>>
    /\ UNCHANGED <<call, prevCall, prevRet>>
    /\ UNCHANGED loopVars

FixedAgain ==
    /\ ret # Pending
    /\ prevCall' = <<call>>
    /\ prevRet' = ret
    /\ call' \in FixedInputs
    /\ ret' = Pending
    /\ UNCHANGED loopVars

NextFixed == FixedCall \/ FixedAgain

SpecFixed == InitFixed /\ [][NextFixed]_vars

(***************************************************************************)
(* part_000: the key=value store                                           *)
(***************************************************************************)
EmptyHash == [k \in {} |-> <<>>]

\* strings.Split(s, sep) for a one-character sep
RECURSIVE Split(_, _)
Split(s, sep) ==
    IF \E i \in 1..Len(s) : s[i] = sep
    THEN LET i == CHOOSE j \in 1..Len(s) : s[j] = sep /\ \A k \in 1..(j - 1) : s[k] # sep
         IN  <<SubSeq(s, 1, i - 1)>> \o Split(SubSeq(s, i + 1, Len(s)), sep)
    ELSE <<s>>

\* part_000:27-33, one turn of the scanner loop
putLine(hash, line) ==
    LET buffer == Split(line, "=")
    IN  IF Len(buffer) = 2
        THEN [k \in DOMAIN hash \cup {buffer[1]} |->
                 IF k = buffer[1] THEN buffer[2] ELSE hash[k]]
        ELSE hash

putLineKeepFirst(hash, line) ==
    LET buffer == Split(line, "=")
    IN  IF Len(buffer) = 2 /\ buffer[1] \notin DOMAIN hash
        THEN [k \in DOMAIN hash \cup {buffer[1]} |->
                 IF k = buffer[1] THEN buffer[2] ELSE hash[k]]
        ELSE hash

RECURSIVE scanLines(_, _)
scanLines(lines, hash) ==
    IF lines = <<>> THEN hash ELSE scanLines(Tail(lines), putLine(hash, Head(lines)))

RECURSIVE scanLinesKeepFirst(_, _)
scanLinesKeepFirst(lines, hash) ==
    IF lines = <<>> THEN hash
    ELSE scanLinesKeepFirst(Tail(lines), putLineKeepFirst(hash, Head(lines)))

parseFileKeepFirst(file) ==
    IF ~file.open THEN EmptyHash ELSE scanLinesKeepFirst(file.lines, EmptyHash)

\* part_000:14-36; file is NoFile when os.Open fails, else its lines
parseFile(file) ==
    IF ~file.open THEN EmptyHash ELSE scanLines(file.lines, EmptyHash)

IsDigit(c) == \E d \in 1..10 : Digits[d] = c
DigitOf(c) == (CHOOSE d \in 1..10 : Digits[d] = c) - 1

RECURSIVE DigitsValue(_)
DigitsValue(s) ==
    IF s = <<>> THEN 0 ELSE 10 * DigitsValue(SubSeq(s, 1, Len(s) - 1)) + DigitOf(s[Len(s)])

\* strconv.Atoi: an optional sign, then one digit or more and nothing else
Atoi(s) ==
    LET body == IF s # <<>> /\ s[1] \in {"+", "-"} THEN Tail(s) ELSE s
    IN  IF body # <<>> /\ \A i \in 1..Len(body) : IsDigit(body[i])
        THEN [err |-> FALSE,
              val |-> IF s[1] = "-" THEN -DigitsValue(body) ELSE DigitsValue(body)]
        ELSE [err |-> TRUE, val |-> 0]

\* part_000:48-54; a key the map lacks reads as ""
GetInt(h, field) ==
    LET conv == Atoi(IF field \in DOMAIN h THEN h[field] ELSE <<>>)
    IN  IF ~conv.err THEN conv.val ELSE 0

\* part_000:38-46
RECURSIVE SearchForInt(_, _)
SearchForInt(h, fields) ==
    IF fields = <<>> THEN 0
    ELSE IF Head(fields) \in DOMAIN h THEN GetInt(h, Head(fields))
    ELSE SearchForInt(h, Tail(fields))

(***************************************************************************)
(* Calls of parseFile and SearchForInt                                     *)
(***************************************************************************)
MaxLines == 3

HashLines == {
    <<"A", "=", "1">>, <<"A", "=", "2", "3">>, <<"B", "=", "4">>, <<"A">>,
    <<"A", "=", "1", "=", "2">>, <<"B", "=", "x">>, <<"=", "5">>, <<"A", "=">>,
    <<"A", "=", "-", "7">>, <<>>, <<"B", "=", "+", "6">>}

SeqsUpTo(S, n) == UNION {[1..k -> S] : k \in 0..n}

HashFiles == {NoFile} \cup {File(l) : l \in SeqsUpTo(HashLines, MaxLines)}

HashFields == {<<>>, <<<<"A">>>>, <<<<"B">>>>, <<<<"A">>, <<"B">>>>, <<<<"B">>, <<"A">>>>,
               <<<<"C">>, <<"A">>>>, <<<<>>, <<"B">>>>}

\* The file as first found: missing, or empty and then written line by line.
InitHash ==
    /\ call \in [file : {NoFile, File(<<>>)}, fields : HashFields]
    /\ ret = Pending
    /\ prevCall = None
    /\ prevRet = None
    /\ variant = "arrows" /\ pc = "idle" /\ rxOld = 0 /\ txOld = 0
    /\ status = <<>> /\ title = <<>> /\ netIn = None /\ prevIn = None
    /\ rxPrev = 0 /\ txPrev = 0

HashCall ==
    /\ ret = Pending
    /\ ret' = <<SearchForInt(parseFile(call.file), call.fields)>>
    /\ UNCHANGED <<call, prevCall, prevRet>>
    /\ UNCHANGED loopVars

\* The file gets one more line before the next call.
HashWrite ==
    /\ call.file.open
    /\ Len(call.file.lines) < MaxLines
    /\ \E line \in HashLines :
           call' = [call EXCEPT !.file = File(Append(call.file.lines, line))]
    /\ ret' = Pending
    /\ UNCHANGED <<prevCall, prevRet>>
    /\ UNCHANGED loopVars

NextHash == HashCall \/ HashWrite

SpecHash == InitHash /\ [][NextHash]_vars

(***************************************************************************)
(* gods.go:89-97,349-357 colored; 174-207,443-476 updateMemUse             *)
(***************************************************************************)
colored(icon, percentage) ==
    IF percentage >= 100 THEN <<ESC6>> \o icon \o <<ESC1>> \o FmtD(percentage, 3)
    ELSE IF percentage >= 70 THEN <<ESC3>> \o icon \o <<ESC1>> \o FmtD(percentage, 3)
    ELSE icon \o FmtD(percentage, 3)

\* A line of /proc/meminfo is its first word, prop ("" for an empty line), and
\* the characters of its second word, num (<<>> when there is none).
\* fmt.Sscanf(line, "%s %d", &prop, &val): an error when a word is missing or
\* the second starts with no integer.
SscanfPropVal(line) ==
    LET conv == Atoi(line.num)
    IN  IF line.prop = "" \/ line.num = <<>> \/ conv.err
        THEN [err |-> TRUE, prop |-> line.prop, val |-> 0]
        ELSE [err |-> FALSE, prop |-> line.prop, val |-> conv.val]

\* done |= flag, for a flag of one bit
BitOr(done, flag) == IF (done \div flag) % 2 = 1 THEN done ELSE done + flag

AllFound == 15

\* The result of a reader: the string it returns, or a panic of the process.
Returns(str) == [panic |-> FALSE, str |-> str]
Panics == [panic |-> TRUE, str |-> <<>>]

\* gods.go:206
memResult(total, used) ==
    IF total = 0 THEN Panics
    ELSE Returns(colored(memSign, TruncDiv(used * 100, total)))

\* gods.go:185-205, the scanner loop from the lines not yet read
RECURSIVE memScanAll(_, _, _, _)
memScanAll(lines, total, used, done) ==
    IF lines = <<>> THEN memResult(total, used)
    ELSE LET s == SscanfPropVal(Head(lines))
         IN  IF s.err THEN Returns(memSign \o ERR)
             ELSE IF s.prop = "MemTotal:"
                  THEN memScanAll(Tail(lines), s.val, used + s.val, BitOr(done, 1))
             ELSE IF s.prop = "MemFree:"
                  THEN memScanAll(Tail(lines), total, used - s.val, BitOr(done, 2))
             ELSE IF s.prop = "Buffers:"
                  THEN memScanAll(Tail(lines), total, used - s.val, BitOr(done, 4))
             ELSE IF s.prop = "Cached:"
                  THEN memScanAll(Tail(lines), total, used - s.val, BitOr(done, 8))
             ELSE memScanAll(Tail(lines), total, used, done)

RECURSIVE memScan(_, _, _, _)
memScan(lines, total, used, done) ==
    IF done = AllFound \/ lines = <<>> THEN memResult(total, used)
    ELSE LET s == SscanfPropVal(Head(lines))
         IN  IF s.err THEN Returns(memSign \o ERR)
             ELSE IF s.prop = "MemTotal:"
                  THEN memScan(Tail(lines), s.val, used + s.val, BitOr(done, 1))
             ELSE IF s.prop = "MemFree:"
                  THEN memScan(Tail(lines), total, used - s.val, BitOr(done, 2))
             ELSE IF s.prop = "Buffers:"
                  THEN memScan(Tail(lines), total, used - s.val, BitOr(done, 4))
             ELSE IF s.prop = "Cached:"
                  THEN memScan(Tail(lines), total, used - s.val, BitOr(done, 8))
             ELSE memScan(Tail(lines), total, used, done)

updateMemUse(file) ==
    IF ~file.open THEN Returns(memSign \o ERR) ELSE memScan(file.lines, 0, 0, 0)

(***************************************************************************)
(* Calls of updateMemUse                                                   *)
(***************************************************************************)
MaxMemLines == 5

MemLine(prop, num) == [prop |-> prop, num |-> num]

MemLines == {
    MemLine("MemTotal:", <<"1", "0", "0", "0">>), MemLine("MemTotal:", <<"0">>),
    MemLine("MemFree:", <<"4", "0", "0">>), MemLine("Buffers:", <<"1", "0", "0">>),
    MemLine("Cached:", <<"1", "0", "0">>), MemLine("Cached:", <<"6", "0", "0">>),
    MemLine("SwapTotal:", <<"7">>), MemLine("MemFree:", <<"k", "B">>)}

InitMem ==
    /\ call \in [file : {NoFile, File(<<>>)}]
    /\ ret = Pending
    /\ prevCall = None
    /\ prevRet = None
    /\ variant = "rates" /\ pc = "idle" /\ rxOld = 0 /\ txOld = 0
    /\ status = <<>> /\ title = <<>> /\ netIn = None /\ prevIn = None
    /\ rxPrev = 0 /\ txPrev = 0

MemCall ==
    /\ ret = Pending
    /\ ret' = <<updateMemUse(call.file)>>
    /\ UNCHANGED <<call, prevCall, prevRet>>
    /\ UNCHANGED loopVars

\* The table gets one more line before the next call.
MemWrite ==
    /\ call.file.open
    /\ Len(call.file.lines) < MaxMemLines
    /\ \E line \in MemLines :
           call' = [call EXCEPT !.file = File(Append(call.file.lines, line))]
    /\ ret' = Pending
    /\ UNCHANGED <<prevCall, prevRet>>
    /\ UNCHANGED loopVars

NextMem == MemCall \/ MemWrite

SpecMem == InitMem /\ [][NextMem]_vars

(***************************************************************************)
(* /sys/class/power_supply as the kernel lays it out: a directory for each *)
(* supply; a battery's attributes are files of their own (a number and a   *)
(* newline) and lines KEY=number of its uevent file.                       *)
(***************************************************************************)
KeyEnergyFull ==
    <<"P", "O", "W", "E", "R", "_", "S", "U", "P", "P", "L", "Y", "_", "E", "N", "E",
    "R", "G", "Y", "_", "F", "U", "L", "L">>
KeyChargeFull ==
    <<"P", "O", "W", "E", "R", "_", "S", "U", "P", "P", "L", "Y", "_", "C", "H", "A",
    "R", "G", "E", "_", "F", "U", "L", "L">>
KeyEnergyNow ==
    <<"P", "O", "W", "E", "R", "_", "S", "U", "P", "P", "L", "Y", "_", "E", "N", "E",
    "R", "G", "Y", "_", "N", "O", "W">>
KeyChargeNow ==
    <<"P", "O", "W", "E", "R", "_", "S", "U", "P", "P", "L", "Y", "_", "C", "H", "A",
    "R", "G", "E", "_", "N", "O", "W">>
KeyChargeNowAsSearched ==
    <<"P", "O", "W", "R", "_", "S", "U", "P", "P", "L", "Y", "_", "C", "H", "A", "R",
    "G", "E", "_", "N", "O", "W">>
KeyCurrentNow ==
    <<"P", "O", "W", "E", "R", "_", "S", "U", "P", "P", "L", "Y", "_", "C", "U", "R",
    "R", "E", "N", "T", "_", "N", "O", "W">>
KeyPowerNow ==
    <<"P", "O", "W", "E", "R", "_", "S", "U", "P", "P", "L", "Y", "_", "P", "O", "W",
    "E", "R", "_", "N", "O", "W">>
KeyName ==
    <<"P", "O", "W", "E", "R", "_", "S", "U", "P", "P", "L", "Y", "_", "N", "A", "M",
    "E">>
FileEnergyFull ==
    <<"e", "n", "e", "r", "g", "y", "_", "f", "u", "l", "l">>
FileChargeFull ==
    <<"c", "h", "a", "r", "g", "e", "_", "f", "u", "l", "l">>
FileEnergyNow ==
    <<"e", "n", "e", "r", "g", "y", "_", "n", "o", "w">>
FileChargeNow ==
    <<"c", "h", "a", "r", "g", "e", "_", "n", "o", "w">>
FileCurrentNow ==
    <<"c", "u", "r", "r", "e", "n", "t", "_", "n", "o", "w">>
FilePowerNow ==
    <<"p", "o", "w", "e", "r", "_", "n", "o", "w">>

\* The attributes a battery may have, in the order of its uevent file.
AttrNames == <<"energy_full", "charge_full", "energy_now", "charge_now",
               "current_now", "power_now">>

AttrFile(a) ==
    CASE a = "energy_full" -> FileEnergyFull
      [] a = "charge_full" -> FileChargeFull
      [] a = "energy_now" -> FileEnergyNow
      [] a = "charge_now" -> FileChargeNow
      [] a = "current_now" -> FileCurrentNow
      [] a = "power_now" -> FilePowerNow

AttrKey(a) ==
    CASE a = "energy_full" -> KeyEnergyFull
      [] a = "charge_full" -> KeyChargeFull
      [] a = "energy_now" -> KeyEnergyNow
      [] a = "charge_now" -> KeyChargeNow
      [] a = "current_now" -> KeyCurrentNow
      [] a = "power_now" -> KeyPowerNow

\* A supply is [name, attrs]: attrs is the record of the attributes it has.
RECURSIVE ueventLines(_, _)
ueventLines(supply, i) ==
    IF i > Len(AttrNames) THEN <<>>
    ELSE (IF AttrNames[i] \in DOMAIN supply.attrs
          THEN <<AttrKey(AttrNames[i]) \o <<"=">> \o Itoa(supply.attrs[AttrNames[i]])>>
          ELSE <<>>) \o ueventLines(supply, i + 1)

\* <supply>/uevent
ueventFile(supply) == File(<<KeyName \o <<"=">> \o supply.name>> \o ueventLines(supply, 1))

\* <supply>/<f>: the file of the attribute named f, when the supply has it
attrFile(supply, f) ==
    IF \E a \in DOMAIN supply.attrs : AttrFile(a) = f
    THEN LET a == CHOOSE b \in DOMAIN supply.attrs : AttrFile(b) = f
         IN  File(Itoa(supply.attrs[a]) \o <<"\n">>)
    ELSE NoFile

(***************************************************************************)
(* gods.go:99-155 and 359-424  updatePower                                 *)
(***************************************************************************)
WhiteSpace == {" ", "\n", "\t", "\r"}

RECURSIVE TrimLeft(_)
TrimLeft(s) == IF s # <<>> /\ Head(s) \in WhiteSpace THEN TrimLeft(Tail(s)) ELSE s

RECURSIVE TrimRight(_)
TrimRight(s) ==
    IF s # <<>> /\ s[Len(s)] \in WhiteSpace THEN TrimRight(SubSeq(s, 1, Len(s) - 1)) ELSE s

\* strings.TrimSpace
TrimSpace(s) == TrimRight(TrimLeft(s))

\* gods.go:372-386
RECURSIVE readvalFile(_, _)
readvalFile(supply, field) ==
    IF field = <<>> THEN <<"0">>
    ELSE IF attrFile(supply, Head(field)).open THEN attrFile(supply, Head(field)).lines
    ELSE readvalFile(supply, Tail(field))

readval(supply, field) ==
    LET conv == Atoi(TrimSpace(readvalFile(supply, field)))
    IN  IF ~conv.err THEN conv.val ELSE 0

\* gods.go:122-126 ("arrows") and 395-397 ("rates"): what one battery adds
battRead(v, supply) ==
    IF v = "arrows"
    THEN LET batteryValues == parseFile(ueventFile(supply))
         IN  [enFull |-> SearchForInt(batteryValues, <<KeyEnergyFull, KeyChargeFull>>),
              enNow |-> SearchForInt(batteryValues, <<KeyEnergyNow, KeyChargeNowAsSearched>>),
              curNow |-> SearchForInt(batteryValues, <<KeyCurrentNow, KeyPowerNow>>)]
    ELSE [enFull |-> readval(supply, <<FileEnergyFull, FileChargeFull>>),
          enNow |-> readval(supply, <<FileEnergyNow, FileChargeNow>>),
          curNow |-> readval(supply, <<FileCurrentNow>>)]

IsBatt(supply) == HasPrefix(supply.name, <<"B", "A", "T">>)

\* gods.go:115-127 and 388-398: the sums over the directory's batteries
RECURSIVE battSum(_, _, _)
battSum(v, batts, acc) ==
    IF batts = <<>> THEN acc
    ELSE IF ~IsBatt(Head(batts)) THEN battSum(v, Tail(batts), acc)
    ELSE LET b == battRead(v, Head(batts))
         IN  battSum(v, Tail(batts), [enFull |-> acc.enFull + b.enFull,
                                      enNow |-> acc.enNow + b.enNow,
                                      curNow |-> acc.curNow + b.curNow])

powerAggregate(v, batts) == battSum(v, batts, [enFull |-> 0, enNow |-> 0, curNow |-> 0])

\* float32(a) / float32(b) for integers 0 < a, b < 2^24: the quotient's mantissa
\* m (24 bits, rounded to nearest, ties to even) and k, the value being m / 2^k.
RECURSIVE f32DivBits(_, _, _, _)
f32DivBits(q, r, b, k) ==
    IF q >= 8388608
    THEN [m |-> IF 2 * r > b \/ (2 * r = b /\ q % 2 = 1) THEN q + 1 ELSE q, k |-> k]
    ELSE f32DivBits(2 * q + (IF 2 * r >= b THEN 1 ELSE 0),
                    IF 2 * r >= b THEN 2 * r - b ELSE 2 * r, b, k + 1)

f32Div(a, b) == f32DivBits(a \div b, a % b, b, 0)

\* gods.go:140-141 and 410-411: int(float32(enNow) / float32(curNow) * 60)
timeInMin(enNow, curNow) ==
    IF enNow = 0 THEN 0
    ELSE LET remaining == f32Div(Abs(enNow), Abs(curNow))
             p == remaining.m * 60
             s == MantissaShift(p)
             m == RoundShift(p, s)
             mag == IF s >= remaining.k THEN m * Pow2(s - remaining.k)
                    ELSE m \div Pow2(remaining.k - s)
         IN  IF (enNow > 0) = (curNow > 0) THEN mag ELSE -mag

\* gods.go:142-145 and 412-415
timeRemainingText(enNow, curNow) ==
    LET t == timeInMin(enNow, curNow)
        hours == TruncDiv(t, 60)
    IN  <<" ", "[">> \o Itoa(hours) \o <<":">> \o FmtD0(t - hours * 60, 2) \o <<"]">>

\* gods.go:148-154 and 418-423
powerText(icon, enPerc, timeRemaining) ==
    IF enPerc <= 5 THEN <<ESC6>> \o icon \o <<" ", ESC1>> \o FmtD(enPerc, 3) \o timeRemaining
    ELSE IF enPerc <= 10
         THEN <<ESC3>> \o icon \o <<" ", ESC1>> \o FmtD(enPerc, 3) \o timeRemaining
    ELSE icon \o <<" ">> \o FmtD(enPerc, 3) \o timeRemaining

\* sys is [ac, dirOk, batts]: the file AC/online (lines holds its characters),
\* whether the directory can be listed, and its supplies.
updatePower(v, sys) ==
    IF ~sys.ac.open THEN Returns(powerERR)
    ELSE IF ~sys.dirOk THEN Returns(powerERR)
    ELSE LET agg == powerAggregate(v, sys.batts)
             plugged == sys.ac.lines
         IN  IF agg.enFull = 0 THEN Returns(powerERR)
             ELSE IF v = "arrows" /\ plugged = <<>> THEN Panics
             ELSE LET enPerc == TruncDiv(agg.enNow * 100, agg.enFull)
                      isPlugged == IF v = "arrows" THEN plugged[1] = "1"
                                   ELSE plugged = <<"1", "\n">>
                  IN  IF isPlugged THEN Returns(powerText(pluggedSign, enPerc, <<>>))
                      ELSE IF agg.curNow # 0
                           THEN Returns(powerText(unpluggedSign, enPerc,
                                    timeRemainingText(agg.enNow, agg.curNow)))
                      ELSE Returns(powerText(unpluggedSign, enPerc, <<>>))

(***************************************************************************)
(* Calls of updatePower                                                    *)
(***************************************************************************)
MaxSupplies == 2

BAT0 == <<"B", "A", "T", "0">>
NoAttrs == [a \in {} |-> 0]

Supplies == {
    [name |-> BAT0, attrs |-> [energy_full |-> 2000, energy_now |-> 1000, current_now |-> 500]],
    [name |-> BAT0, attrs |-> [energy_full |-> 2000, energy_now |-> 1000, current_now |-> 0]],
    [name |-> BAT0, attrs |-> [charge_full |-> 2000, charge_now |-> 1000, power_now |-> 500]],
    [name |-> BAT0, attrs |-> [energy_full |-> 100, energy_now |-> 21, current_now |-> 20]],
    [name |-> BAT0, attrs |-> [energy_full |-> 2000, energy_now |-> 150]],
    [name |-> BAT0, attrs |-> [energy_full |-> 2000, charge_full |-> 100, energy_now |-> 100,
                               charge_now |-> 5, current_now |-> 500, power_now |-> 20]],
    [name |-> BAT0, attrs |-> NoAttrs],
    [name |-> <<"A", "C">>, attrs |-> NoAttrs]}

OnlineFiles == {NoFile, File(<<>>), File(<<"1", "\n">>), File(<<"0", "\n">>), File(<<"1">>)}

InitPower ==
    /\ call \in [v : {"arrows", "rates"},
                 sys : [ac : OnlineFiles, dirOk : BOOLEAN, batts : {<<>>}]]
    /\ ret = Pending
    /\ prevCall = None
    /\ prevRet = None
    /\ variant = call.v /\ pc = "idle" /\ rxOld = 0 /\ txOld = 0
    /\ status = <<>> /\ title = <<>> /\ netIn = None /\ prevIn = None
    /\ rxPrev = 0 /\ txPrev = 0

PowerCall ==
    /\ ret = Pending
    /\ ret' = <<updatePower(call.v, call.sys)>>
    /\ UNCHANGED <<call, prevCall, prevRet>>
    /\ UNCHANGED loopVars

\* One more supply shows up in the directory before the next call.
PowerPlug ==
    /\ Len(call.sys.batts) < MaxSupplies
    /\ \E supply \in Supplies :
           call' = [call EXCEPT !.sys.batts = Append(call.sys.batts, supply)]
    /\ ret' = Pending
    /\ UNCHANGED <<prevCall, prevRet>>
    /\ UNCHANGED loopVars

NextPower == PowerCall \/ PowerPlug

SpecPower == InitPower /\ [][NextPower]_vars

(***************************************************************************)
(* gods.go:47-87 and 323-347  updateNetUse                                 *)
(***************************************************************************)
\* A line of /proc/net/dev is its first word, dev, and cols, the numbers that
\* follow it up to the first word that is none: <<>> for the two header lines,
\* <<receive bytes, transmit bytes>> for the row of an interface (the seven
\* numbers between the two are read into void).
\* fmt.Sscanf(line, "%s %d ... %d", &dev, &rx, ..., &tx) sets what it gets to and
\* leaves the rest as it was; its error is dropped.
SscanfRow(line, dev, rx, tx) ==
    [dev |-> line.dev,
     rx |-> IF Len(line.cols) >= 1 THEN line.cols[1] ELSE rx,
     tx |-> IF Len(line.cols) >= 2 THEN line.cols[2] ELSE tx]

inNetDevsAny(dev) == TRUE
inNetDevs(dev) == dev \in netDevs

\* gods.go:61-72 and 336-343
RECURSIVE netScan(_, _, _, _, _, _)
netScan(lines, dev, rx, tx, rxNow, txNow) ==
    IF lines = <<>> THEN [rxNow |-> rxNow, txNow |-> txNow]
    ELSE LET s == SscanfRow(Head(lines), dev, rx, tx)
         IN  IF inNetDevs(s.dev)
             THEN netScan(Tail(lines), s.dev, s.rx, s.tx, rxNow + s.rx, txNow + s.tx)
             ELSE netScan(Tail(lines), s.dev, s.rx, s.tx, rxNow, txNow)

\* gods.go:76-86 ("arrows") and 346 ("rates"): the string of a tick that read
\* the table
netText(v, rxNow, txNow, rxO, txO) ==
    IF v = "arrows"
    THEN netSign \o <<" ">> \o (IF rxNow - rxO # 0 THEN <<"↓">> ELSE <<" ">>)
                 \o (IF txNow - txO # 0 THEN <<"↑">> ELSE <<" ">>)
    ELSE fixed(netReceivedSign, rxNow - rxO) \o <<" ">> \o fixed(netTransmittedSign, txNow - txO)

\* gods.go:52 and 328
netERR(v) ==
    IF v = "arrows" THEN netSign \o <<" ">> \o ERR
    ELSE netReceivedSign \o <<" ">> \o ERR \o <<" ">> \o netTransmittedSign \o <<" ">> \o ERR

updateNetUseResets(v, file, rxO, txO) ==
    IF ~file.open THEN [str |-> netERR(v), rxOld |-> 0, txOld |-> 0]
    ELSE LET now == netScan(file.lines, "", 0, 0, 0, 0)
         IN  [str |-> netText(v, now.rxNow, now.txNow, rxO, txO),
              rxOld |-> now.rxNow, txOld |-> now.txNow]

\* The string returned and the pair as the deferred assignment leaves it.
updateNetUse(v, file, rxO, txO) ==
    IF ~file.open THEN [str |-> netERR(v), rxOld |-> rxO, txOld |-> txO]
    ELSE LET now == netScan(file.lines, "", 0, 0, 0, 0)
         IN  [str |-> netText(v, now.rxNow, now.txNow, rxO, txO),
              rxOld |-> now.rxNow, txOld |-> now.txNow]

(***************************************************************************)
(* gods.go:157-172,426-441 updateCPUUse; 209-215,478-484 getHostname       *)
(***************************************************************************)
cores == 4

RECURSIVE FirstWord(_)
FirstWord(s) ==
    IF s = <<>> \/ Head(s) \in WhiteSpace THEN <<>> ELSE <<Head(s)>> \o FirstWord(Tail(s))

\* fmt.Sscanf(text, "%f", &load) on the decimal numbers /proc/loadavg holds:
\* digits, then "." and digits.  The number read is hundredths/100.
SscanfLoad(text) ==
    LET word == FirstWord(TrimLeft(text))
        parts == Split(word, ".")
        whole == parts[1]
        frac == IF Len(parts) = 2 THEN SubSeq(parts[2] \o <<"0", "0">>, 1, 2) ELSE <<"0", "0">>
    IN  IF /\ Len(parts) <= 2
           /\ whole # <<>>
           /\ \A i \in 1..Len(whole) : IsDigit(whole[i])
           /\ Len(parts) = 2 => (Len(parts[2]) <= 2 /\ \A i \in 1..Len(parts[2]) : IsDigit(parts[2][i]))
        THEN [err |-> FALSE, hundredths |-> DigitsValue(whole \o frac)]
        ELSE [err |-> TRUE, hundredths |-> 0]

\* int(load*100.0/float32(cores)) for load = hundredths/100 as float32
cpuPercentage(hundredths) ==
    IF hundredths = 0 THEN 0
    ELSE LET load == f32Div(hundredths, 100)
             p == load.m * 100
             s == MantissaShift(p)
             scaled == RoundShift(p, s)
             q == f32Div(scaled, cores)
             up == s
             down == load.k + q.k
         IN  IF up >= down THEN q.m * Pow2(up - down) ELSE q.m \div Pow2(down - up)

updateCPUUse(file) ==
    IF ~file.open THEN Returns(cpuSign \o ERR)
    ELSE LET s == SscanfLoad(file.lines)
         IN  IF s.err THEN Returns(cpuSign \o ERR)
             ELSE Returns(colored(cpuSign, cpuPercentage(s.hundredths)))

getHostname(file) == IF file.open THEN TrimSpace(file.lines) ELSE <<>>

(***************************************************************************)
(* gods.go:217-235 and 486-504  main                                       *)
(***************************************************************************)
RECURSIVE Join(_, _)
Join(elems, sep) ==
    IF elems = <<>> THEN <<>>
    ELSE IF Len(elems) = 1 THEN elems[1]
    ELSE elems[1] \o sep \o Join(Tail(elems), sep)

\* /proc/net/dev: the two header lines, then the rows of the interfaces.
NetHeader == <<[dev |-> "Inter-|", cols |-> <<>>], [dev |-> "face", cols |-> <<>>]>>
NetRow(dev, counters) == [dev |-> dev, cols |-> counters]

\* The counters an interface may show.
Counters == {<<1000, 500>>, <<500, 100>>, <<500, 500>>}
RowsOf(dev) == {<<>>} \cup {<<NetRow(dev, c)>> : c \in Counters}

NetFiles ==
    {NoFile} \cup {File(NetHeader \o lo \o eth \o wlan) :
                      lo \in {<<>>, <<NetRow("lo:", <<1000, 500>>)>>},
                      eth \in RowsOf("enp0s25:"), wlan \in RowsOf("wlp4s0:")}

Hostname ==
    <<"b", "o", "x", "\n">>
LoadTwo ==
    <<"2", ".", "0", "0", " ", "1", ".", "5", "0", " ", "1", ".", "0", "0", " ", "1",
    "/", "1", "0", "0", " ", "9", "9", "9", "\n">>
LoadLow ==
    <<"0", ".", "2", "9", " ", "0", ".", "1", "0", " ", "0", ".", "0", "5", " ", "1",
    "/", "1", "0", "0", " ", "9", "9", "9", "\n">>
TimeA ==
    <<"M", "o", "n", " ", "0", "2", " ", "|", " ", "1", "5", ":", "0", "4", ":", "0",
    "5">>
TimeB ==
    <<"M", "o", "n", " ", "0", "2", " ", "|", " ", "1", "5", ":", "0", "4", ":", "0",
    "6">>

HostFiles == {NoFile, File(Hostname)}
LoadFiles == {NoFile, File(<<>>), File(LoadTwo), File(LoadLow)}
Times == {TimeA, TimeB}

MemTable == <<MemLine("MemTotal:", <<"1", "0", "0", "0">>), MemLine("MemFree:", <<"4", "0", "0">>),
              MemLine("Buffers:", <<"1", "0", "0">>), MemLine("Cached:", <<"1", "0", "0">>)>>
MemTableZero == <<MemLine("MemTotal:", <<"0">>), MemLine("MemFree:", <<"0">>),
                  MemLine("Buffers:", <<"0">>), MemLine("Cached:", <<"0">>)>>
MemFiles == {NoFile, File(<<>>), File(MemTable), File(MemTableZero)}

Battery == [name |-> BAT0, attrs |-> [energy_full |-> 2000, energy_now |-> 1000, current_now |-> 500]]
PowerDirs ==
    {[ac |-> NoFile, dirOk |-> TRUE, batts |-> <<>>],
     [ac |-> File(<<"1", "\n">>), dirOk |-> TRUE, batts |-> <<>>],
     [ac |-> File(<<"0", "\n">>), dirOk |-> TRUE, batts |-> <<Battery>>],
     [ac |-> File(<<>>), dirOk |-> TRUE, batts |-> <<Battery>>]}

\* What is missing when every source is: the readers' files cannot be opened.
Missing == {NoFile}
PowerMissing == {[ac |-> NoFile, dirOk |-> FALSE, batts |-> <<>>]}

Init ==
    /\ variant \in {"arrows", "rates"}
    /\ pc = "getHostname"
    /\ rxOld = 0 /\ txOld = 0
    /\ status = <<>> /\ title = <<>>
    /\ netIn = None /\ prevIn = None /\ rxPrev = 0 /\ txPrev = 0
    /\ call = <<>> /\ ret = Pending /\ prevCall = None /\ prevRet = None

StepHostname(files) ==
    /\ pc = "getHostname"
    /\ \E file \in files : status' = <<getHostname(file)>>
    /\ pc' = "updateNetUse"
    /\ UNCHANGED <<variant, rxOld, txOld, title, netIn, prevIn, rxPrev, txPrev>>
    /\ UNCHANGED callVars

StepNet(files) ==
    /\ pc = "updateNetUse"
    /\ \E file \in files :
          LET r == updateNetUse(variant, file, rxOld, txOld)
          IN  /\ status' = Append(status, r.str)
              /\ rxOld' = r.rxOld
              /\ txOld' = r.txOld
              /\ netIn' = <<file>>
    /\ prevIn' = IF netIn # None /\ netIn[1].open THEN netIn ELSE prevIn
    /\ rxPrev' = rxOld
    /\ txPrev' = txOld
    /\ pc' = "updateCPUUse"
    /\ UNCHANGED <<variant, title>>
    /\ UNCHANGED callVars

\* A reader's result goes into the status line; a panic ends the process.
StepReader(at, result, next) ==
    /\ pc = at
    /\ IF result.panic
       THEN pc' = "panic" /\ UNCHANGED status
       ELSE pc' = next /\ status' = Append(status, result.str)
    /\ UNCHANGED <<variant, rxOld, txOld, title, netIn, prevIn, rxPrev, txPrev>>
    /\ UNCHANGED callVars

StepCPU(files) ==
    \E file \in files : StepReader("updateCPUUse", updateCPUUse(file), "updateMemUse")

StepMem(files) ==
    \E file \in files : StepReader("updateMemUse", updateMemUse(file), "updatePower")

StepPower(dirs) ==
    \E sys \in dirs : StepReader("updatePower", updatePower(variant, sys), "xsetroot")

\* gods.go:226-233 and 495-502: the time, xsetroot, the sleep to the next second
StepPublish(times) ==
    /\ pc = "xsetroot"
    /\ \E now \in times : title' = Join(Append(status, now), fieldSeparator)
    /\ status' = <<>>
    /\ pc' = "getHostname"
    /\ UNCHANGED <<variant, rxOld, txOld, netIn, prevIn, rxPrev, txPrev>>
    /\ UNCHANGED callVars

Loop(hosts, nets, loads, mems, dirs, times) ==
    \/ StepHostname(hosts)
    \/ StepNet(nets)
    \/ StepCPU(loads)
    \/ StepMem(mems)
    \/ StepPower(dirs)
    \/ StepPublish(times)

\* main over a /proc/net/dev that is missing or shows one interface
Next == Loop(HostFiles, {NoFile, File(NetHeader \o <<NetRow("wlp4s0:", <<1000, 500>>)>>)},
             LoadFiles, MemFiles, PowerDirs, Times)

Spec == Init /\ [][Next]_vars

\* main over every /proc/net/dev, the other sources missing and the clock
\* standing still
NextNet == Loop(Missing, NetFiles, Missing, Missing, PowerMissing, {TimeA})

SpecNet == Init /\ [][NextNet]_vars

(***************************************************************************)
(* Claims                                                                  *)
(***************************************************************************)
\* A string as the status bar shows it: the statuscolors escapes colour the
\* text and take no place.
ColorEscapes == {ESC1, ESC3, ESC4, ESC6}
IsShown(c) == c \notin ColorEscapes
Display(s) == SelectSeq(s, IsShown)
DisplayWidth(s) == Len(Display(s))
DisplayERR == <<"E", "R", "R">>

\* 0: B/s, 1: KiB/s, 2: MiB/s, 3: no unit (an error marker)
Tier(out) ==
    IF HasSuffix(Display(out), mibpsSign) THEN 2
    ELSE IF HasSuffix(Display(out), kibpsSign) THEN 1
    ELSE IF HasSuffix(Display(out), bpsSign) THEN 0
    ELSE 3

\* C5: fixed(label, rate) picks the unit by the magnitude of rate: below 0 it
\* returns label + " ERR", below 1000 B/s, below 1000*1024 KiB/s, below
\* 1000*1024*1024 MiB/s, and from there on the error marker; the tier never
\* decreases as the rate increases.
C5_TierByMagnitude ==
    ret # Pending =>
        LET rate == call.rate
            out == ret[1]
        IN  /\ rate < 0 => Display(out) = call.pre \o <<" ">> \o DisplayERR
            /\ (0 <= rate /\ rate < 1000) => Tier(out) = 0
            /\ (1000 <= rate /\ rate < 1000 * Kibi) => Tier(out) = 1
            /\ (1000 * Kibi <= rate /\ rate < RateCeiling) => Tier(out) = 2
            /\ rate >= RateCeiling => Tier(out) = 3 /\ HasSuffix(Display(out), DisplayERR)
            /\ (prevRet # None /\ 0 <= prevCall[1].rate /\ prevCall[1].rate <= rate)
                  => Tier(prevRet[1]) <= Tier(out)

\* C6: for one label, every rate from 0 up to the ceiling gives a string of the
\* same width, whichever tier and precision branch fixed takes.
C6_FixedWidth ==
    (/\ ret # Pending /\ prevRet # None
     /\ call.pre = prevCall[1].pre
     /\ 0 <= call.rate /\ call.rate < RateCeiling
     /\ 0 <= prevCall[1].rate /\ prevCall[1].rate < RateCeiling)
        => DisplayWidth(ret[1]) = DisplayWidth(prevRet[1])

EqualsCount(line) == Cardinality({i \in 1..Len(line) : line[i] = "="})
EqualsAt(line) == CHOOSE i \in 1..Len(line) : line[i] = "="
KeyOf(line) == SubSeq(line, 1, EqualsAt(line) - 1)
ValueOf(line) == SubSeq(line, EqualsAt(line) + 1, Len(line))

\* The lines of the file that make an entry for key: those with exactly one "=".
EntryLines(file, key) ==
    IF ~file.open THEN {}
    ELSE {i \in 1..Len(file.lines) :
             EqualsCount(file.lines[i]) = 1 /\ KeyOf(file.lines[i]) = key}

SetMax(S) == CHOOSE x \in S : \A y \in S : y <= x
SetMin(S) == CHOOSE x \in S : \A y \in S : x <= y

StoredValue(file, key) == ValueOf(file.lines[SetMax(EntryLines(file, key))])

IsIntegerText(s) ==
    \/ s # <<>> /\ \A i \in 1..Len(s) : IsDigit(s[i])
    \/ Len(s) >= 2 /\ s[1] \in {"+", "-"} /\ \A i \in 2..Len(s) : IsDigit(s[i])

RECURSIVE PlaceSum(_, _)
PlaceSum(s, i) ==
    IF i > Len(s) THEN 0
    ELSE (IF IsDigit(s[i]) THEN DigitOf(s[i]) * Pow10(Len(s) - i) ELSE 0) + PlaceSum(s, i + 1)

IntegerOfText(s) == IF s[1] = "-" THEN -PlaceSum(s, 1) ELSE PlaceSum(s, 1)

\* C7: parseFile then SearchForInt returns the integer value of the first
\* candidate key with an entry, the entry of a key being the value of the last
\* line that splits on "=" into exactly two parts; it returns 0 when no
\* candidate has an entry, when the file cannot be opened, and when the value
\* of the first present candidate is no integer.
C7_FirstPresentKey ==
    ret # Pending =>
        LET present == {j \in 1..Len(call.fields) :
                           EntryLines(call.file, call.fields[j]) # {}}
        IN  IF present = {} THEN ret[1] = 0
            ELSE LET value == StoredValue(call.file, call.fields[SetMin(present)])
                 IN  ret[1] = IF IsIntegerText(value) THEN IntegerOfText(value) ELSE 0

\* C7's case: the first candidate is absent, the second has two entry lines
\* with different integer values, and the later one is returned.
C7_Witness ==
    /\ ret # Pending
    /\ call.file.open
    /\ Len(call.fields) = 2
    /\ EntryLines(call.file, call.fields[1]) = {}
    /\ Cardinality(EntryLines(call.file, call.fields[2])) >= 2
    /\ LET lines == EntryLines(call.file, call.fields[2])
       IN  /\ ValueOf(call.file.lines[SetMin(lines)]) # ValueOf(call.file.lines[SetMax(lines)])
           /\ IsIntegerText(ValueOf(call.file.lines[SetMax(lines)]))
           /\ ret[1] # 0

MemFields == {"MemTotal:", "MemFree:", "Buffers:", "Cached:"}

LineParses(line) == line.prop # "" /\ IsIntegerText(line.num)

\* The first k lines hold all four fields.
MemComplete(lines, k) == \A f \in MemFields : \E i \in 1..k : lines[i].prop = f

\* Each of the four fields is on exactly one of the first k lines.
MemOnce(lines, k) ==
    \A f \in MemFields : Cardinality({i \in 1..k : lines[i].prop = f}) = 1

MemField(lines, k, f) ==
    IntegerOfText(lines[CHOOSE i \in 1..k : lines[i].prop = f].num)

RECURSIVE FirstPresent(_, _)
FirstPresent(attrs, names) ==
    IF names = <<>> THEN 0
    ELSE IF Head(names) \in DOMAIN attrs THEN attrs[Head(names)]
    ELSE FirstPresent(attrs, Tail(names))

RECURSIVE BattTotal(_, _)
BattTotal(batts, names) ==
    IF batts = <<>> THEN 0
    ELSE (IF HasPrefix(Head(batts).name, <<"B", "A", "T">>)
          THEN FirstPresent(Head(batts).attrs, names) ELSE 0) + BattTotal(Tail(batts), names)

\* C8: updatePower sums, over the battery directories, each quantity taken
\* from the first field present: energy-full then charge-full, energy-now then
\* charge-now, current-now then power-now.
C8_AlternateFields ==
    (ret # Pending /\ call.sys.ac.open /\ call.sys.dirOk) =>
        LET agg == powerAggregate(call.v, call.sys.batts)
        IN  /\ agg.enFull = BattTotal(call.sys.batts, <<"energy_full", "charge_full">>)
            /\ agg.enNow = BattTotal(call.sys.batts, <<"energy_now", "charge_now">>)
            /\ agg.curNow = BattTotal(call.sys.batts, <<"current_now", "power_now">>)

Online == <<"1", "\n">>
Offline == <<"0", "\n">>

\* " [H:MM]" for t minutes, 0 <= MM <= 59
HoursMinutes(t) ==
    <<" ", "[">> \o Itoa(t \div 60) \o <<":">> \o FmtD0(t % 60, 2) \o <<"]">>

\* C9: with a nonzero aggregate full energy updatePower shows now*100/full;
\* " [H:MM]" follows exactly when AC is offline and the aggregate current is
\* nonzero, H*60+MM being the truncation of now*60/current; the plugged icon
\* has no suffix; a zero aggregate full energy gives the error marker.
C9_PowerText ==
    (ret # Pending /\ call.sys.ac.open /\ call.sys.dirOk
        /\ call.sys.ac.lines \in {Online, Offline}) =>
        LET agg == powerAggregate(call.v, call.sys.batts)
            perc == FmtD(TruncDiv(agg.enNow * 100, agg.enFull), 3)
            shown == Display(ret[1].str)
        IN  /\ ~ret[1].panic
            /\ IF agg.enFull = 0 THEN shown = <<"Ï">> \o DisplayERR
               ELSE IF call.sys.ac.lines = Online
                    THEN shown = pluggedSign \o <<" ">> \o perc
               ELSE IF agg.curNow # 0
                    THEN shown = unpluggedSign \o <<" ">> \o perc
                                   \o HoursMinutes(TruncDiv(agg.enNow * 60, agg.curNow))
               ELSE shown = unpluggedSign \o <<" ">> \o perc

\* C1: whatever the sources hold, every reader returns a string and main goes
\* on to the next tick: the process never panics.
C1_NoCrash == pc # "panic"

\* The sum of column c (1: receive, 2: transmit) over the rows, from line i on,
\* of the interfaces in the configured set.
RECURSIVE ColumnTotal(_, _, _)
ColumnTotal(lines, i, c) ==
    IF i > Len(lines) THEN 0
    ELSE (IF lines[i].dev \in netDevs /\ Len(lines[i].cols) = 2 THEN lines[i].cols[c] ELSE 0)
            + ColumnTotal(lines, i + 1, c)

NetTotals(in) ==
    IF in = None \/ ~in[1].open THEN [rx |-> 0, tx |-> 0]
    ELSE [rx |-> ColumnTotal(in[1].lines, 1, 1), tx |-> ColumnTotal(in[1].lines, 1, 2)]

\* updateNetUse has returned in this tick: its string is the second field.
NetDone == Len(status) >= 2
NetOpened == NetDone /\ netIn[1].open
RxDrop == NetOpened /\ NetTotals(netIn).rx < rxPrev
TxDrop == NetOpened /\ NetTotals(netIn).tx < txPrev
Positive(n) == IF n < 0 THEN 0 ELSE n

\* The field of a tick whose deltas are those of this tick, a drop counting as 0.
ZeroTrafficField ==
    netText(variant, rxPrev + Positive(NetTotals(netIn).rx - rxPrev),
                     txPrev + Positive(NetTotals(netIn).tx - txPrev), rxPrev, txPrev)

\* C2 as the specification states it: when the totals of the configured
\* interfaces are lower than on the tick before, the network field is that of
\* a tick with a delta of 0 and no error marker.
C2_DropIsZeroTraffic == (RxDrop \/ TxDrop) => status[2] = ZeroTrafficField

\* C2, amended: a total lower than on the tick before is not shown as zero
\* traffic; the rates variant shows "RX ERR" or "TX ERR" for that direction
\* and the arrows variant shows the arrow of a nonzero delta.
C2_DropIsShown ==
    /\ RxDrop => /\ status[2] # ZeroTrafficField
                 /\ IF variant = "rates"
                    THEN HasPrefix(Display(status[2]),
                                   netReceivedSign \o <<" ">> \o DisplayERR \o <<" ">>)
                    ELSE status[2][5] = "↓"
    /\ TxDrop => /\ status[2] # ZeroTrafficField
                 /\ IF variant = "rates"
                    THEN HasSuffix(Display(status[2]),
                                   <<" ">> \o netTransmittedSign \o <<" ">> \o DisplayERR)
                    ELSE status[2][6] = "↑"

\* C2's case: the received total dropped while the transmitted one did not.
C2_Witness ==
    /\ RxDrop /\ ~TxDrop
    /\ variant = "rates"
    /\ HasSuffix(status[2], bpsSign)

\* The table of the most recent tick that opened /proc/net/dev, if any.
LastOpened == IF netIn # None /\ netIn[1].open THEN netIn ELSE prevIn

\* C3: the pair (rxOld, txOld) is the totals read by the most recent tick that
\* opened the table, (0,0) before any; a tick that cannot open it returns the
\* error string and leaves the pair alone; a tick that opens it returns the
\* string computed from the pair it found and then sets the pair.
C3_PreviousPair ==
    /\ rxOld = NetTotals(LastOpened).rx
    /\ txOld = NetTotals(LastOpened).tx
    /\ (NetDone /\ ~netIn[1].open)
          => /\ rxOld = rxPrev /\ txOld = txPrev
             /\ Display(status[2]) =
                   IF variant = "rates"
                   THEN netReceivedSign \o <<" ">> \o DisplayERR \o <<" ">>
                           \o netTransmittedSign \o <<" ">> \o DisplayERR
                   ELSE netSign \o <<" ">> \o DisplayERR
    /\ NetOpened
          => status[2] = netText(variant, NetTotals(netIn).rx, NetTotals(netIn).tx,
                                 rxPrev, txPrev)

\* C3's case: a tick that cannot open the table follows one that read
\* nonzero totals.
C3_Witness ==
    /\ NetDone /\ ~netIn[1].open
    /\ prevIn # None
    /\ rxPrev > 0 /\ txPrev > 0
    /\ rxOld = rxPrev /\ txOld = txPrev

\* C4: a tick that reads the table shows the differences between the totals
\* of the configured interfaces in this table and in the one read before it
\* ((0,0) on the first tick); the rows of other interfaces add nothing.
C4_RateOfDeltas ==
    NetOpened =>
        LET rate == [rx |-> NetTotals(netIn).rx - NetTotals(prevIn).rx,
                     tx |-> NetTotals(netIn).tx - NetTotals(prevIn).tx]
        IN  IF variant = "rates"
            THEN status[2] = fixed(netReceivedSign, rate.rx) \o <<" ">>
                                \o fixed(netTransmittedSign, rate.tx)
            ELSE status[2] = netSign \o <<" ">>
                                \o (IF rate.rx # 0 THEN <<"↓">> ELSE <<" ">>)
                                \o (IF rate.tx # 0 THEN <<"↑">> ELSE <<" ">>)

\* C4's case: totals (1000,500) then (1500,600) beside a row of lo give the
\* rates 500 and 100.
C4_Witness ==
    /\ NetOpened
    /\ variant = "rates"
    /\ prevIn # None
    /\ NetTotals(prevIn) = [rx |-> 1000, tx |-> 500]
    /\ NetTotals(netIn) = [rx |-> 1500, tx |-> 600]
    /\ \E i \in 1..Len(netIn[1].lines) : netIn[1].lines[i].dev = "lo:"
    /\ status[2] = <<"R", "X", "5", "0", "0", "B", "/", "s", " ",
                     "T", "X", "1", "0", "0", "B", "/", "s">>

====
